---- MODULE Spec2Model ----
(***************************************************************************)
(* Model of the comparative benchmark: benchmark() and the driver script   *)
(* of benchmark.py, and the paired functions of inefficient_example.py and *)
(* optimized_example.py.                                                   *)
(*                                                                         *)
(* Clock readings are integer ticks supplied by the environment.  A float  *)
(* quotient is a record [kind, num, den]; float('inf') is kind "inf".      *)
(* Strings are sequences of one-character strings.                         *)
(***************************************************************************)
EXTENDS Integers, Sequences, FiniteSets

VARIABLES pc, trial, name, start, time_ineff, time_opt, speedup, ret,
          results, avg_speedup, out, now, drift, ncalls, hung, error,
          pair, args, result_ineff, result_opt

vars == <<pc, trial, name, start, time_ineff, time_opt, speedup, ret,
          results, avg_speedup, out, now, drift, ncalls, hung, error,
          pair, args, result_ineff, result_opt>>

funcVars == <<pair, args, result_ineff, result_opt>>

(***************************************************************************)
(* Bounds of the model.                                                    *)
(***************************************************************************)
\* Successive time.time() readings are nominally one tick apart.  At most
\* MaxDrift readings of a run deviate from that: the clock stood still, was
\* set back, or jumped ahead.
MaxDrift == 2

NumTrials == 6

None == "None"
\* no value has been returned
NoValue == <<>>
Unbound == [kind |-> "unbound", num |-> 0, den |-> 0]
Inf == [kind |-> "inf", num |-> 0, den |-> 0]
ZeroDivisionError == [kind |-> "ZeroDivisionError", num |-> 0, den |-> 0]
Float(n) == [kind |-> "ratio", num |-> n, den |-> 1]

\* a / b on floats: raises ZeroDivisionError when b == 0
PyDiv(a, b) ==
    IF b = 0 THEN ZeroDivisionError
    ELSE IF b > 0 THEN [kind |-> "ratio", num |-> a, den |-> b]
    ELSE [kind |-> "ratio", num |-> -a, den |-> -b]

\* x + y on floats, x and y finite or +inf
FAdd(x, y) ==
    IF x.kind = "inf" \/ y.kind = "inf" THEN Inf
    ELSE [kind |-> "ratio", num |-> x.num * y.den + y.num * x.den,
          den |-> x.den * y.den]

\* x / n for a float x and an int n
FDivInt(x, n) ==
    IF n = 0 THEN ZeroDivisionError
    ELSE IF x.kind = "inf" THEN Inf
    ELSE [kind |-> "ratio", num |-> x.num, den |-> x.den * n]

Labels ==
    <<"String Concatenation (n=5000)",
      "List vs Set Search (n=2000)",
      "Nested Loops with Calculations (n=200)",
      "Multiple Passes vs Single Pass (n=1000)",
      "List Insert vs Deque (n=1000)",
      "Global Lookups (n=2000)">>

\* the callables and the arguments of the six calls, lines 61-105; an argument
\* is kept as the expression the script passes
TrialPairs == <<"string", "search", "nested", "filtering", "listops", "global">>

TrialArgs ==
    <<(<<"5000">>), (<<"list(range(2000))", "1000">>), (<<"list(range(200))">>),
      (<<"list(range(1000))">>), (<<>>), (<<>>)>>

Call(which, f, a) == [ev |-> which, tag |-> f, val |-> a]
Line(tag, val) == [ev |-> "print", tag |-> tag, val |-> val]
Event(tag) == [ev |-> tag, tag |-> "", val |-> None]

(***************************************************************************)
(* benchmark(name, inefficient_func, optimized_func, *args)                *)
(***************************************************************************)
BenchLocalsUnchanged == UNCHANGED <<start, time_ineff, time_opt, speedup>>
DriverUnchanged == UNCHANGED <<trial, name, results, avg_speedup>>

\* time.time(), lines 31, 33, 36, 38: the values the next reading can have
TimeTime ==
    {now + 1} \cup (IF drift < MaxDrift THEN {now - 1, now, now + 2} ELSE {})

ReadClock(t) ==
    /\ now' = t
    /\ drift' = IF t = now + 1 THEN drift ELSE drift + 1

\* lines 26-28
BenchEnter ==
    /\ pc = "b_entry"
    /\ out' = out \o <<Line("blank+sep", None), Line("Benchmark", name),
                       Line("sep", None)>>
    /\ pc' = "b_start1"
    /\ BenchLocalsUnchanged /\ DriverUnchanged
    /\ UNCHANGED <<ret, now, drift, ncalls, hung, error, funcVars>>

\* line 31: start = time.time()
StartSlow ==
    /\ pc = "b_start1"
    /\ \E t \in TimeTime :
        /\ ReadClock(t)
        /\ start' = t
    /\ out' = Append(out, Event("clock"))
    /\ pc' = "b_call_slow"
    /\ UNCHANGED <<time_ineff, time_opt, speedup>> /\ DriverUnchanged
    /\ UNCHANGED <<ret, ncalls, hung, error, funcVars>>

\* line 32: inefficient_func(*args) is entered
InvokeSlow ==
    /\ pc = "b_call_slow"
    /\ out' = Append(out, Call("call_slow", pair, args))
    /\ ncalls' = ncalls + 1
    /\ pc' = "b_in_slow"
    /\ BenchLocalsUnchanged /\ DriverUnchanged
    /\ UNCHANGED <<ret, now, drift, hung, error, funcVars>>

SlowReturnsOnTimeout ==
    /\ pc = "b_in_slow"
    /\ out' = Append(out, Event("ret_slow"))
    /\ pc' = "b_end1"
    /\ BenchLocalsUnchanged /\ DriverUnchanged
    /\ UNCHANGED <<ret, now, drift, ncalls, hung, error, funcVars>>

\* line 32: inefficient_func(*args) returns; its result is bound and never used
SlowReturns ==
    /\ pc = "b_in_slow" /\ ~hung
    /\ out' = Append(out, Event("ret_slow"))
    /\ pc' = "b_end1"
    /\ BenchLocalsUnchanged /\ DriverUnchanged
    /\ UNCHANGED <<ret, now, drift, ncalls, hung, error, funcVars>>

\* line 33: time_ineff = time.time() - start
EndSlow ==
    /\ pc = "b_end1"
    /\ \E t \in TimeTime :
        /\ ReadClock(t)
        /\ time_ineff' = t - start
    /\ out' = Append(out, Event("clock"))
    /\ pc' = "b_start2"
    /\ UNCHANGED <<start, time_opt, speedup>> /\ DriverUnchanged
    /\ UNCHANGED <<ret, ncalls, hung, error, funcVars>>

StartFastKeepsStart ==
    /\ pc = "b_start2"
    /\ pc' = "b_call_fast"
    /\ BenchLocalsUnchanged /\ DriverUnchanged
    /\ UNCHANGED <<out, ret, now, drift, ncalls, hung, error, funcVars>>

\* line 36: start = time.time()
StartFast ==
    /\ pc = "b_start2"
    /\ \E t \in TimeTime :
        /\ ReadClock(t)
        /\ start' = t
    /\ out' = Append(out, Event("clock"))
    /\ pc' = "b_call_fast"
    /\ UNCHANGED <<time_ineff, time_opt, speedup>> /\ DriverUnchanged
    /\ UNCHANGED <<ret, ncalls, hung, error, funcVars>>

\* line 37: optimized_func(*args) is entered
InvokeFast ==
    /\ pc = "b_call_fast"
    /\ out' = Append(out, Call("call_fast", pair, args))
    /\ ncalls' = ncalls + 1
    /\ pc' = "b_in_fast"
    /\ BenchLocalsUnchanged /\ DriverUnchanged
    /\ UNCHANGED <<ret, now, drift, hung, error, funcVars>>

\* line 37: optimized_func(*args) returns
FastReturns ==
    /\ pc = "b_in_fast" /\ ~hung
    /\ out' = Append(out, Event("ret_fast"))
    /\ pc' = "b_end2"
    /\ BenchLocalsUnchanged /\ DriverUnchanged
    /\ UNCHANGED <<ret, now, drift, ncalls, hung, error, funcVars>>

\* line 38: time_opt = time.time() - start
EndFast ==
    /\ pc = "b_end2"
    /\ \E t \in TimeTime :
        /\ ReadClock(t)
        /\ time_opt' = t - start
    /\ out' = Append(out, Event("clock"))
    /\ pc' = "b_speedup"
    /\ UNCHANGED <<start, time_ineff, speedup>> /\ DriverUnchanged
    /\ UNCHANGED <<ret, ncalls, hung, error, funcVars>>

\* lines 32, 37: there is no try/except around either call and none in the
\* driver: an exception raised by the callable leaves benchmark() and the script
InCallable == pc \in {"b_in_slow", "b_in_fast"}

Propagate(exc) ==
    /\ error' = exc
    /\ out' = Append(out, Event("traceback"))
    /\ pc' = "aborted"

CallableRaisesCaught ==
    /\ InCallable /\ ~hung
    /\ error' = "Exception"
    /\ out' = Append(out, Event("caught"))
    /\ pc' = IF pc = "b_in_slow" THEN "b_end1" ELSE "b_end2"
    /\ BenchLocalsUnchanged /\ DriverUnchanged
    /\ UNCHANGED <<ret, now, drift, ncalls, hung, funcVars>>

CallableRaises ==
    /\ InCallable /\ ~hung
    /\ Propagate("Exception")
    /\ BenchLocalsUnchanged /\ DriverUnchanged
    /\ UNCHANGED <<ret, now, drift, ncalls, hung, funcVars>>

\* lines 32, 37: the call is synchronous and has no timeout: a callable that
\* never returns keeps control
CallableDiverges ==
    /\ InCallable /\ ~hung
    /\ hung' = TRUE
    /\ BenchLocalsUnchanged /\ DriverUnchanged
    /\ UNCHANGED <<pc, out, ret, now, drift, ncalls, error, funcVars>>

SpeedupOfGuardIncludesZero(t_ineff, t_opt) ==
    IF t_opt >= 0 THEN PyDiv(t_ineff, t_opt) ELSE Inf

\* lines 41-44
SpeedupOf(t_ineff, t_opt) ==
    IF t_opt > 0 THEN PyDiv(t_ineff, t_opt) ELSE Inf

ComputeSpeedup ==
    /\ pc = "b_speedup"
    /\ LET s == SpeedupOf(time_ineff, time_opt) IN
        IF s = ZeroDivisionError
        THEN /\ Propagate("ZeroDivisionError")
             /\ UNCHANGED speedup
        ELSE /\ speedup' = s
             /\ pc' = "b_print"
             /\ UNCHANGED <<out, error>>
    /\ UNCHANGED <<start, time_ineff, time_opt>> /\ DriverUnchanged
    /\ UNCHANGED <<ret, now, drift, ncalls, hung, funcVars>>

\* lines 46-48
PrintMeasurement ==
    /\ pc = "b_print"
    /\ out' = out \o <<Line("Inefficient", time_ineff),
                       Line("Optimized", time_opt),
                       Line("Speedup", speedup)>>
    /\ pc' = "b_return"
    /\ BenchLocalsUnchanged /\ DriverUnchanged
    /\ UNCHANGED <<ret, now, drift, ncalls, hung, error, funcVars>>

\* line 50: return time_ineff, time_opt, speedup
ReturnedTriple(t_ineff, t_opt, s) == <<t_ineff, t_opt, s>>

BenchReturn ==
    /\ pc = "b_return"
    /\ ret' = ReturnedTriple(time_ineff, time_opt, speedup)
    /\ out' = Append(out, Event("return"))
    /\ pc' = "returned"
    /\ BenchLocalsUnchanged /\ DriverUnchanged
    /\ UNCHANGED <<now, drift, ncalls, hung, error, funcVars>>

benchmark ==
    \/ BenchEnter
    \/ StartSlow
    \/ InvokeSlow
    \/ SlowReturns
    \/ EndSlow
    \/ StartFast
    \/ InvokeFast
    \/ FastReturns
    \/ EndFast
    \/ CallableRaises
    \/ CallableDiverges
    \/ ComputeSpeedup
    \/ PrintMeasurement
    \/ BenchReturn

(***************************************************************************)
(* The driver script, benchmark.py lines 53-114                            *)
(***************************************************************************)
\* a local that is not bound yet is 0 here; pc tells which locals are bound
FreshFrame ==
    /\ start' = 0
    /\ time_ineff' = 0
    /\ time_opt' = 0
    /\ speedup' = Unbound

\* lines 54-58, and the first benchmark() call is entered (line 61)
DriverHeader ==
    /\ pc = "d_header"
    /\ out' = out \o <<Line("sep", None), Line("title", None),
                       Line("sep", None)>>
    /\ results' = <<>>
    /\ trial' = 1
    /\ name' = Labels[1]
    /\ pair' = TrialPairs[1]
    /\ args' = TrialArgs[1]
    /\ pc' = "b_entry"
    /\ UNCHANGED <<start, time_ineff, time_opt, speedup, ret, avg_speedup,
                   now, drift, ncalls, hung, error, result_ineff, result_opt>>

MoreTrialsDropsLast(k) == k + 1 < NumTrials

\* lines 61-105: six calls in sequence; after the k-th, is there another one
MoreTrials(k) == k < NumTrials

\* results.append(benchmark(...)), lines 61-105; the next statement is the
\* next benchmark() call or the summary
DriverAppend ==
    /\ pc = "returned"
    /\ results' = Append(results, ret)
    /\ ret' = NoValue
    /\ FreshFrame
    /\ IF MoreTrials(trial)
       THEN /\ trial' = trial + 1
            /\ name' = Labels[trial + 1]
            /\ pair' = TrialPairs[trial + 1]
            /\ args' = TrialArgs[trial + 1]
            /\ pc' = "b_entry"
       ELSE /\ pc' = "d_summary"
            /\ UNCHANGED <<trial, name, pair, args>>
    /\ UNCHANGED <<avg_speedup, out, now, drift, ncalls, hung, error,
                   result_ineff, result_opt>>

\* sum(r[2] for r in results), line 111
RECURSIVE SumSpeedups(_)
SumSpeedups(rs) ==
    IF rs = <<>> THEN Float(0)
    ELSE LET Add(acc) == FAdd(acc, rs[Len(rs)][3]) IN
         \* the running total is evaluated once
         CHOOSE total \in {Add(acc) : acc \in {SumSpeedups(SubSeq(rs, 1, Len(rs) - 1))}} : TRUE

AverageSpeedupOffByOne(rs) == FDivInt(SumSpeedups(rs), Len(rs) - 1)

\* line 111
AverageSpeedup(rs) == FDivInt(SumSpeedups(rs), Len(rs))

\* lines 108-114
DriverSummary ==
    /\ pc = "d_summary"
    /\ LET avg == AverageSpeedup(results) IN
        IF avg = ZeroDivisionError
        THEN /\ out' = out \o <<Line("blank+sep", None), Line("SUMMARY", None),
                                Line("sep", None), Event("traceback")>>
             /\ error' = "ZeroDivisionError"
             /\ pc' = "aborted"
             /\ UNCHANGED avg_speedup
        ELSE /\ avg_speedup' = avg
             /\ out' = out \o <<Line("blank+sep", None), Line("SUMMARY", None),
                                Line("sep", None),
                                Line("Average speedup", avg),
                                Line("Total tests", Len(results)),
                                Line("closing", None)>>
             /\ pc' = "done"
             /\ UNCHANGED error
    /\ UNCHANGED <<trial, name, start, time_ineff, time_opt, speedup, ret,
                   results, now, drift, ncalls, hung, funcVars>>

HarnessInit ==
    /\ start = 0
    /\ time_ineff = 0
    /\ time_opt = 0
    /\ speedup = Unbound
    /\ ret = NoValue
    /\ results = <<>>
    /\ avg_speedup = Unbound
    /\ out = <<>>
    /\ now = 0
    /\ drift = 0
    /\ ncalls = 0
    /\ hung = FALSE
    /\ error = None

FuncIdle ==
    /\ pair = None
    /\ args = <<>>
    /\ result_ineff = None
    /\ result_opt = None

\* one call benchmark(name, slow, fast, *args), for any of the six labels
BenchInit ==
    /\ HarnessInit
    /\ trial \in 1..NumTrials
    /\ name = Labels[trial]
    /\ pair = TrialPairs[trial]
    /\ args = TrialArgs[trial]
    /\ result_ineff = None
    /\ result_opt = None
    /\ pc = "b_entry"

BenchNext == benchmark

SpecBench == BenchInit /\ [][BenchNext]_vars

\* python benchmark.py
DriverInit ==
    /\ HarnessInit
    /\ FuncIdle
    /\ trial = 0
    /\ name = None
    /\ pc = "d_header"

DriverNext ==
    \/ DriverHeader
    \/ benchmark
    \/ DriverAppend
    \/ DriverSummary

SpecDriver == DriverInit /\ [][DriverNext]_vars

(***************************************************************************)
(* inefficient_example.py and optimized_example.py                         *)
(***************************************************************************)
\* arguments tried for the paired functions
MaxN == 12
MaxLen == 3
MaxItem == 2
MaxNum == 12

Digits == <<"0", "1", "2", "3", "4", "5", "6", "7", "8", "9">>

\* str(i) for an int i >= 0
RECURSIVE Str(_)
Str(i) ==
    IF i < 10 THEN <<Digits[i + 1]>>
    ELSE Str(i \div 10) \o <<Digits[(i % 10) + 1]>>

\* for i in range(lo, hi): acc = Body(i, acc); the range is walked in order,
\* split in halves
RECURSIVE ForRange(_, _, _, _)
ForRange(Body(_, _), lo, hi, acc) ==
    IF hi <= lo THEN acc
    ELSE IF hi = lo + 1 THEN Body(lo, acc)
    ELSE LET mid == lo + ((hi - lo) \div 2)
             first == ForRange(Body, lo, mid, acc)
         IN IF first = first THEN ForRange(Body, mid, hi, first) ELSE first

\* for x in seq: acc = Body(x, acc)
ForEach(Body(_, _), seq, acc) ==
    LET AtIndex(k, a) == Body(seq[k + 1], a) IN
    ForRange(AtIndex, 0, Len(seq), acc)

\* sep.join(parts)
StrJoin(sep, parts) ==
    LET Glue(k, acc) == IF k = 0 THEN parts[1] ELSE acc \o sep \o parts[k + 1] IN
    ForRange(Glue, 0, Len(parts), <<>>)

\* x in lst, for a list lst
InList(x, lst) == \E k \in 1..Len(lst) : lst[k] = x

inefficient_string_concatenation(n) ==
    LET Body(i, result) == result \o (Str(i) \o <<",">>) IN
    ForRange(Body, 0, n, <<>>)

optimized_string_concatenation(n) ==
    LET Gen(i, parts) == Append(parts, Str(i)) IN
    StrJoin(<<",">>, ForRange(Gen, 0, n, <<>>))

inefficient_list_search(items, target) ==
    LET Body(item, found_items) ==
            IF InList(item, found_items) THEN found_items
            ELSE IF item = target THEN Append(found_items, item)
            ELSE found_items
    IN ForEach(Body, items, <<>>)

OptSearchStepNeverAdds(item, st, target) ==
    IF item \in st[1] THEN st
    ELSE <<st[1], IF item = target THEN Append(st[2], item) ELSE st[2]>>

\* the loop state is <<found_items, result>>
OptSearchStep(item, st, target) ==
    IF item \in st[1] THEN st
    ELSE <<st[1] \cup {item},
           IF item = target THEN Append(st[2], item) ELSE st[2]>>

optimized_list_search(items, target) ==
    LET Body(item, st) == OptSearchStep(item, st, target) IN
    ForEach(Body, items, <<{}, <<>>>>)[2]

inefficient_nested_loops(data) ==
    LET Outer(i, result) ==
            LET Inner(j, r) == Append(r, data[i + 1] * 2 + data[j + 1] * 2) IN
            ForRange(Inner, 0, Len(data), result)
    IN ForRange(Outer, 0, Len(data), <<>>)

optimized_nested_loops(data) ==
    LET doubled_data == [k \in 1..Len(data) |-> data[k] * 2]
        Outer(i, result) ==
            LET Inner(j, r) == Append(r, doubled_data[i + 1] + doubled_data[j + 1]) IN
            ForRange(Inner, 0, Len(data), result)
    IN ForRange(Outer, 0, Len(data), <<>>)

IneffListOpsN == 1000
OptListOpsN == 1000
IneffLookupN == 1000
OptLookupN == 1000

inefficient_list_operations ==
    LET Body(i, result) == <<i>> \o result IN
    ForRange(Body, 0, IneffListOpsN, <<>>)

optimized_list_operations ==
    LET Body(i, result) == <<i>> \o result IN
    ForRange(Body, 0, OptListOpsN, <<>>)

inefficient_data_filtering(numbers) ==
    LET Even(num, evens) == IF num % 2 = 0 THEN Append(evens, num) ELSE evens
        Large(num, large) == IF num > 10 THEN Append(large, num) ELSE large
        Square(num, result) == Append(result, num * num)
        evens == ForEach(Even, numbers, <<>>)
        large_evens == ForEach(Large, evens, <<>>)
    IN ForEach(Square, large_evens, <<>>)

OptFilterKeepsTen(num) == num % 2 = 0 /\ num >= 10

\* line 82: the condition of the comprehension
OptFilterKeeps(num) == num % 2 = 0 /\ num > 10

optimized_data_filtering(numbers) ==
    LET Body(num, result) ==
            IF OptFilterKeeps(num) THEN Append(result, num * num) ELSE result
    IN ForEach(Body, numbers, <<>>)

inefficient_global_lookup ==
    LET Body(i, result) == Append(result, Len(Str(i))) IN
    ForRange(Body, 0, IneffLookupN, <<>>)

optimized_global_lookup ==
    LET Body(i, result) == Append(result, Len(Str(i))) IN
    ForRange(Body, 0, OptLookupN, <<>>)

Pairs == {"string", "search", "nested", "filtering", "listops", "global"}

inefficient_func(p, a) ==
    CASE p = "string" -> inefficient_string_concatenation(a[1])
      [] p = "search" -> inefficient_list_search(a[1], a[2])
      [] p = "nested" -> inefficient_nested_loops(a[1])
      [] p = "filtering" -> inefficient_data_filtering(a[1])
      [] p = "listops" -> inefficient_list_operations
      [] p = "global" -> inefficient_global_lookup

optimized_func(p, a) ==
    CASE p = "string" -> optimized_string_concatenation(a[1])
      [] p = "search" -> optimized_list_search(a[1], a[2])
      [] p = "nested" -> optimized_nested_loops(a[1])
      [] p = "filtering" -> optimized_data_filtering(a[1])
      [] p = "listops" -> optimized_list_operations
      [] p = "global" -> optimized_global_lookup

ListsOver(S) == UNION {[1..k -> S] : k \in 0..MaxLen}

ArgsOf(p) ==
    CASE p = "string" -> {<<n>> : n \in 0..MaxN}
      [] p = "search" -> ListsOver(0..MaxItem) \X (0..(MaxItem + 1))
      [] p = "nested" -> {<<d>> : d \in ListsOver((-MaxItem)..MaxItem)}
      [] p = "filtering" -> {<<d>> : d \in ListsOver((-1..1) \cup (9..MaxNum))}
      [] p = "listops" -> {<<>>}
      [] p = "global" -> {<<>>}

HarnessIdle ==
    /\ HarnessInit
    /\ trial = 0
    /\ name = None

\* a pair of the six and arguments both functions accept
FuncsInit ==
    /\ HarnessIdle
    /\ pair \in Pairs
    /\ args \in ArgsOf(pair)
    /\ result_ineff = None
    /\ result_opt = None
    /\ pc = "f_slow"

\* benchmark.py line 32: result_ineff = inefficient_func(*args)
RunInefficient ==
    /\ pc = "f_slow"
    /\ result_ineff' = inefficient_func(pair, args)
    /\ pc' = "f_fast"
    /\ UNCHANGED <<pair, args, result_opt>>
    /\ UNCHANGED <<trial, name, start, time_ineff, time_opt, speedup, ret,
                   results, avg_speedup, out, now, drift, ncalls, hung, error>>

\* benchmark.py line 37: result_opt = optimized_func(*args)
RunOptimized ==
    /\ pc = "f_fast"
    /\ result_opt' = optimized_func(pair, args)
    /\ pc' = "f_done"
    /\ UNCHANGED <<pair, args, result_ineff>>
    /\ UNCHANGED <<trial, name, start, time_ineff, time_opt, speedup, ret,
                   results, avg_speedup, out, now, drift, ncalls, hung, error>>

FuncsNext == RunInefficient \/ RunOptimized

SpecFuncs == FuncsInit /\ [][FuncsNext]_vars

\* the interpreter runs the next statement whenever there is one; every step
\* of the driver changes pc or hung
FairDriver == DriverInit /\ [][DriverNext]_vars /\ WF_<<pc, hung>>(DriverNext)

(***************************************************************************)
(* Properties                                                              *)
(***************************************************************************)
IsPrefix(s, t) == Len(s) <= Len(t) /\ \A i \in 1..Len(s) : s[i] = t[i]

Tags(log) == [i \in 1..Len(log) |-> <<log[i].ev, log[i].tag>>]

NumEv(e) == Cardinality({i \in 1..Len(out) : out[i].ev = e})
NumLine(t) == Cardinality({i \in 1..Len(out) : out[i].ev = "print" /\ out[i].tag = t})

ExpectedFuncs == <<"string", "search", "nested", "filtering", "listops", "global">>

ExpectedLabels ==
    <<"String Concatenation (n=5000)",
      "List vs Set Search (n=2000)",
      "Nested Loops with Calculations (n=200)",
      "Multiple Passes vs Single Pass (n=1000)",
      "List Insert vs Deque (n=1000)",
      "Global Lookups (n=2000)">>

\* what one call benchmark() of the k-th pair prints and does, in order
ExpectedCall(k) ==
    <<(<<"print", "blank+sep">>), (<<"print", "Benchmark">>), (<<"print", "sep">>),
      (<<"clock", "">>), (<<"call_slow", ExpectedFuncs[k]>>), (<<"ret_slow", "">>),
      (<<"clock", "">>),
      (<<"clock", "">>), (<<"call_fast", ExpectedFuncs[k]>>), (<<"ret_fast", "">>),
      (<<"clock", "">>),
      (<<"print", "Inefficient">>), (<<"print", "Optimized">>),
      (<<"print", "Speedup">>), (<<"return", "">>)>>

ExpectedHeader ==
    <<(<<"print", "sep">>), (<<"print", "title">>), (<<"print", "sep">>)>>

ExpectedSummary ==
    <<(<<"print", "blank+sep">>), (<<"print", "SUMMARY">>), (<<"print", "sep">>),
      (<<"print", "Average speedup">>), (<<"print", "Total tests">>),
      (<<"print", "closing">>)>>

ExpectedRun ==
    ExpectedHeader \o ExpectedCall(1) \o ExpectedCall(2) \o ExpectedCall(3)
        \o ExpectedCall(4) \o ExpectedCall(5) \o ExpectedCall(6) \o ExpectedSummary

SpeedupBound == pc \in {"b_print", "b_return", "returned"}
TimeIneffBound ==
    pc \in {"b_start2", "b_call_fast", "b_in_fast", "b_end2", "b_speedup",
            "b_print", "b_return", "returned"}
TimeOptBound == pc \in {"b_speedup", "b_print", "b_return", "returned"}

\* C1: the speedup benchmark() computes and returns is t_slow / t_fast when
\* t_fast > 0 and +infinity otherwise, and the division never raises.
C1_SpeedupGuarded ==
    /\ error # "ZeroDivisionError"
    /\ SpeedupBound =>
        IF time_opt > 0
        THEN /\ speedup.kind = "ratio"
             /\ speedup.den # 0
             /\ speedup.num * time_opt = time_ineff * speedup.den
        ELSE speedup = Inf
    /\ pc = "returned" => ret[3] = speedup

C1_Witness ==
    /\ pc = "returned"
    /\ time_opt = 0
    /\ time_ineff > 0
    /\ ret[3] = Inf

\* C2: the elapsed values t_slow and t_fast that benchmark() computes are
\* never negative.
C2_TimingNeverNegative ==
    /\ TimeIneffBound => time_ineff >= 0
    /\ TimeOptBound => time_opt >= 0

RECURSIVE SumNum(_, _, _)
SumNum(sp, d, k) ==
    IF k = 0 THEN 0 ELSE SumNum(sp, d, k - 1) + sp[k].num * (d \div sp[k].den)

RECURSIVE ProdDen(_, _)
ProdDen(sp, k) == IF k = 0 THEN 1 ELSE ProdDen(sp, k - 1) * sp[k].den

\* x is the arithmetic mean of the floats sp[1..n]
IsMeanOf(x, sp, n) ==
    IF \E k \in 1..n : sp[k].kind = "inf" THEN x = Inf
    ELSE LET d == ProdDen(sp, n) IN
         /\ x.kind = "ratio"
         /\ x.den # 0
         /\ x.num * n * d = x.den * SumNum(sp, d, n)

\* place in the output of the last line of the k-th per-trial block
SpeedupLineAt(k) == Len(ExpectedHeader) + k * Len(ExpectedCall(k)) - 1

\* C3: when the driver finishes, the printed average is the mean of the six
\* speedups the six benchmark() calls returned, in trial order, and the
\* printed count is 6.
C3_AverageIsMeanOfSix ==
    pc = "done" =>
        /\ Len(results) = 6
        /\ \A k \in 1..6 : out[SpeedupLineAt(k)].val = results[k][3]
        /\ IsMeanOf(avg_speedup, [k \in 1..6 |-> results[k][3]], 6)
        /\ out[Len(out) - 2] = Line("Average speedup", avg_speedup)
        /\ out[Len(out) - 1] = Line("Total tests", 6)
        /\ error = None

C3_Witness ==
    /\ pc = "done"
    /\ avg_speedup.kind = "ratio"
    /\ avg_speedup.num # avg_speedup.den
    /\ \E k \in 1..6 : results[k][3].num < 0

\* number of "Benchmark" lines among the first i lines of the output
NumLineUpTo(i) ==
    Cardinality({j \in 1..i : out[j].ev = "print" /\ out[j].tag = "Benchmark"})

\* C4: when no callable raises, the output is the header, the six per-trial
\* blocks in the fixed order, each complete before the next begins, and then
\* the one summary block, whatever the clock readings are.
C4_SixBlocksThenSummary ==
    error = None =>
        /\ IsPrefix(Tags(out), ExpectedRun)
        /\ \A i \in 1..Len(out) :
              (out[i].ev = "print" /\ out[i].tag = "Benchmark") =>
                  out[i].val = ExpectedLabels[NumLineUpTo(i)]
        /\ pc = "done" <=> Tags(out) = ExpectedRun

C4_Witness ==
    /\ pc = "done"
    /\ drift > 0
    /\ NumLine("Speedup") = 6
    /\ NumLine("SUMMARY") = 1

\* C5: an exception raised by a callable ends the run there: nothing is
\* retried, no later callable is invoked, no triple is returned for the
\* trial, and neither its measurement lines nor the summary are printed.
C5_RaiseAbortsRun ==
    error # None =>
        /\ pc = "aborted"
        /\ ~ENABLED DriverNext
        /\ out[Len(out)].ev = "traceback"
        /\ out[Len(out) - 1].ev \in {"call_slow", "call_fast"}
        /\ NumEv("call_slow") = trial
        /\ NumEv("call_fast") =
              IF out[Len(out) - 1].ev = "call_slow" THEN trial - 1 ELSE trial
        /\ ncalls = NumEv("call_slow") + NumEv("call_fast")
        /\ ret = NoValue
        /\ Len(results) = trial - 1
        /\ NumLine("Inefficient") = trial - 1
        /\ NumLine("Optimized") = trial - 1
        /\ NumLine("Speedup") = trial - 1
        /\ NumLine("SUMMARY") = 0
        /\ NumLine("Average speedup") = 0

C5_Witness ==
    /\ pc = "aborted"
    /\ error = "Exception"
    /\ trial = 3
    /\ out[Len(out) - 1].ev = "call_slow"

\* C6: one call of benchmark() reads the clock, runs the slow callable, reads
\* the clock, reads the clock, runs the fast callable with the same arguments,
\* reads the clock, each once and in this order; each elapsed value is the
\* reading after the call minus the reading before it; the triple returned is
\* the three values printed.
C6_CallOrder ==
    error = None =>
        /\ IsPrefix(Tags(out), ExpectedCall(trial))
        /\ pc \in {"b_call_slow", "b_in_slow", "b_end1"} => start = now
        /\ pc = "b_start2" => time_ineff = now - start
        /\ pc \in {"b_call_fast", "b_in_fast", "b_end2"} => start = now
        /\ TimeOptBound => time_opt = now - start
        /\ Len(out) >= 9 => out[9].val = out[5].val
        /\ pc = "returned" =>
              /\ Tags(out) = ExpectedCall(trial)
              /\ ret = <<out[12].val, out[13].val, out[14].val>>
              /\ ret = <<time_ineff, time_opt, speedup>>

C6_Witness ==
    /\ pc = "returned"
    /\ ret[1] = 2
    /\ ret[2] = -1

\* C7: inefficient_string_concatenation(n) and
\* optimized_string_concatenation(n) return the same string for every n >= 0.
C7_StringPairEquivalent ==
    (pc = "f_done" /\ pair = "string") => result_ineff = result_opt

Occurs(x, lst) == Cardinality({k \in 1..Len(lst) : lst[k] = x})

\* C8: the two list searches return equal lists: [target] when target occurs
\* in items, [] otherwise.
C8_ListSearchEquivalent ==
    (pc = "f_done" /\ pair = "search") =>
        /\ result_ineff = result_opt
        /\ result_opt = IF Occurs(args[2], args[1]) > 0 THEN <<args[2]>> ELSE <<>>

C8_Witness ==
    /\ pc = "f_done"
    /\ pair = "search"
    /\ Occurs(args[2], args[1]) >= 2
    /\ Cardinality({args[1][k] : k \in 1..Len(args[1])}) >= 2
    /\ result_ineff = <<args[2]>>

EvenAbove10(x) == x % 2 = 0 /\ x > 10

\* C9: the nested-loop, filtering, list-building and lookup pairs each return
\* equal lists: the values 2*data[i] + 2*data[j] in row-major order, the
\* squares of the even elements above 10 in input order, and 999, 998, ..., 0.
C9_OtherPairsEquivalent ==
    pc = "f_done" =>
        /\ pair \in {"nested", "filtering", "listops", "global"} =>
              result_ineff = result_opt
        /\ pair = "nested" =>
              LET data == args[1]
                  n == Len(data)
              IN /\ Len(result_opt) = n * n
                 /\ \A i \in 1..n : \A j \in 1..n :
                       result_opt[(i - 1) * n + j] = 2 * data[i] + 2 * data[j]
        /\ pair = "filtering" =>
              LET kept == SelectSeq(args[1], EvenAbove10)
              IN result_opt = [k \in 1..Len(kept) |-> kept[k] * kept[k]]
        /\ pair = "listops" =>
              /\ Len(result_opt) = 1000
              /\ \A k \in 1..1000 : result_opt[k] = 1000 - k

C9_Witness ==
    /\ pc = "f_done"
    /\ pair = "filtering"
    /\ args[1] = <<10, 11, 12>>
    /\ result_opt = <<144>>

\* C10: there is no timeout or cancellation: if every invoked callable returns
\* without raising, the driver eventually prints the summary and finishes
\* after exactly 12 invocations; from a callable that never returns the run
\* takes no further step.
C10_NoTimeout ==
    /\ ([](~hung /\ error = None)) => <>(pc = "done" /\ ncalls = 12)
    /\ [](pc = "done" => (ncalls = 12 /\ NumLine("SUMMARY") = 1))
    /\ [][~hung]_<<pc, Len(out), ncalls, Len(results)>>

C10_Witness ==
    /\ hung
    /\ pc = "b_in_fast"
    /\ trial = 6
    /\ NumLine("SUMMARY") = 0

====
